---- MODULE Spec2Model ----
(***************************************************************************)
(* Model of the notes application: the date-phrase recognizer              *)
(* (extractDateKeywords), the keyword merge at the end of extractKeywords, *)
(* and the create/edit request handlers over the SQLite store.             *)
(*                                                                         *)
(* A text is a sequence of one-character strings; a keyword is a string.   *)
(* A calendar date is a record [y, m, d].                                  *)
(***************************************************************************)
EXTENDS Integers, Sequences, FiniteSets, TLC

VARIABLES
    words,          \* recognizer spec: the words the text is made of
    text,           \* recognizer spec: the note text handed to the recognizer
    now,            \* the current date, time.Now(), as [y, m, d]
    pc,             \* recognizer spec: "input", "recognized" or "merged"
    dates,          \* recognizer spec: result of extractDateKeywords(text)
    suggested,      \* recognizer spec: parsed.Keywords of the remote reply
    merged,         \* recognizer spec: keywords returned by extractKeywords
    notes,          \* table notes: id -> [content, created_at]
    keywords,       \* table keywords: set of rows [id, name]
    note_keywords,  \* table note_keywords: rows <<note_id, keyword_id>> in insertion order
    clock,          \* time.Now().UnixNano(), in ticks
    served,         \* number of requests served so far
    last,           \* the last request served and its response
    inflight        \* the requests being served step by step, per handler goroutine

vars == <<words, text, now, pc, dates, suggested, merged,
          notes, keywords, note_keywords, clock, served, last, inflight>>

datesVars == <<words, text, pc, dates, suggested, merged>>
storeVars == <<notes, keywords, note_keywords, clock, served, last, inflight>>

-----------------------------------------------------------------------------
(* Bounds of the model.                                                    *)

MaxTokens == 2
MaxClock == 2
MaxRequests == 2
MaxStepRequests == 3
MaxRaceRequests == 3

-----------------------------------------------------------------------------
(* Characters and strings.                                                 *)

DigitChars == <<"0", "1", "2", "3", "4", "5", "6", "7", "8", "9">>

UpperChars == <<"A", "B", "C", "D", "E", "F", "G", "H", "I", "J", "K", "L", "M",
                "N", "O", "P", "Q", "R", "S", "T", "U", "V", "W", "X", "Y", "Z",
                "Å", "Ø", "Æ">>

LowerChars == <<"a", "b", "c", "d", "e", "f", "g", "h", "i", "j", "k", "l", "m",
                "n", "o", "p", "q", "r", "s", "t", "u", "v", "w", "x", "y", "z",
                "å", "ø", "æ">>

Range(s) == {s[i] : i \in 1..Len(s)}

Digits == Range(DigitChars)

IsDigit(c) == c \in Digits

DigitValues == [c \in Digits |-> (CHOOSE i \in 1..10 : DigitChars[i] = c) - 1]

DigitVal(c) == DigitValues[c]

\* \w of the regexp package: ASCII letters, digits and underscore only.
WordChars ==
    Digits \cup {"_"} \cup {UpperChars[i] : i \in 1..26} \cup {LowerChars[i] : i \in 1..26}

IsWordChar(c) == c \in WordChars

\* unicode.ToLower of one character.
LowerOf ==
    [c \in Range(UpperChars) |->
        LowerChars[CHOOSE i \in 1..Len(UpperChars) : UpperChars[i] = c]]

Uppers == Range(UpperChars)

LowerChar(c) == IF c \in Uppers THEN LowerOf[c] ELSE c

\* strings.ToLower
ToLower(s) == [i \in 1..Len(s) |-> LowerChar(s[i])] \o <<>>

\* strings.Contains
Contains(s, sub) ==
    \E i \in 1..(Len(s) - Len(sub) + 1) : \A k \in 1..Len(sub) : s[i + k - 1] = sub[k]

\* A sequence of characters as a string value.
RECURSIVE Str(_)
Str(s) == IF s = <<>> THEN "" ELSE Head(s) \o Str(Tail(s))

-----------------------------------------------------------------------------
(* Calendar arithmetic of package time (proleptic Gregorian calendar).     *)

IsLeap(y) == y % 4 = 0 /\ (y % 100 # 0 \/ y % 400 = 0)

\* daysIn(month, year)
DaysIn(m, y) ==
    IF m = 2 THEN (IF IsLeap(y) THEN 29 ELSE 28)
    ELSE IF m \in {4, 6, 9, 11} THEN 30 ELSE 31

\* Date(y, m, d) of package time: a day out of range is carried into the
\* neighbouring months (October 32 is November 1).
RECURSIVE Date(_, _, _)
Date(y, m, d) ==
    IF m > 12 THEN Date(y + 1, m - 12, d)
    ELSE IF m < 1 THEN Date(y - 1, m + 12, d)
    ELSE IF d < 1
         THEN (IF m = 1 THEN Date(y - 1, 12, d + 31)
               ELSE Date(y, m - 1, d + DaysIn(m - 1, y)))
    ELSE IF d > DaysIn(m, y) THEN Date(y, m + 1, d - DaysIn(m, y))
    ELSE [y |-> y, m |-> m, d |-> d]

\* t.AddDate(0, 0, n)
AddDate(t, n) == Date(t.y, t.m, t.d + n)

\* The day of the week of day d of month m, the year counted from March
\* (y is the year before for January and February): Sunday = 0.
MonthShift == <<0, 3, 2, 5, 0, 3, 5, 1, 4, 6, 2, 4>>

WeekdayOf(y, m, d) ==
    (y + (y \div 4) - (y \div 100) + (y \div 400) + MonthShift[m] + d) % 7

\* t.Weekday(): Sunday = 0 ... Saturday = 6.
Weekday(t) == WeekdayOf(IF t.m < 3 THEN t.y - 1 ELSE t.y, t.m, t.d)

\* The % operator of Go: the remainder takes the sign of the dividend.
GoRem(a, b) == IF a >= 0 THEN a % b ELSE 0 - ((0 - a) % b)

Pad2(n) == DigitChars[((n \div 10) % 10) + 1] \o DigitChars[(n % 10) + 1]

Pad4(n) == Pad2(n \div 100) \o Pad2(n % 100)

\* t.Format("2006-01-02")
Format(t) == Pad4(t.y) \o "-" \o Pad2(t.m) \o "-" \o Pad2(t.d)

-----------------------------------------------------------------------------
(* The date-phrase recognizer, extractDateKeywords.                        *)

\* The phrases of the relative-day rules.
PhraseToday == <<"i", " ", "d", "a", "g">>
PhraseYesterday == <<"i", " ", "g", "å", "r">>
PhraseTomorrow == <<"i", " ", "m", "o", "r", "g", "e", "n">>

\* The map weekdays: name -> time.Weekday (Sunday = 0).
weekdays ==
    << [name |-> <<"m", "a", "n", "d", "a", "g">>, wd |-> 1],
       [name |-> <<"t", "i", "r", "s", "d", "a", "g">>, wd |-> 2],
       [name |-> <<"o", "n", "s", "d", "a", "g">>, wd |-> 3],
       [name |-> <<"t", "o", "r", "s", "d", "a", "g">>, wd |-> 4],
       [name |-> <<"f", "r", "e", "d", "a", "g">>, wd |-> 5],
       [name |-> <<"l", "ø", "r", "d", "a", "g">>, wd |-> 6],
       [name |-> <<"s", "ø", "n", "d", "a", "g">>, wd |-> 0] >>

\* The entries of weekdays whose name the lower-cased text contains.
MatchedWeekdays(lower) ==
    {i \in 1..Len(weekdays) : Contains(lower, weekdays[i].name)}

\* All orders in which the elements of a finite set can be visited.
Orders(S) ==
    {f \in [1..Cardinality(S) -> S] : \A i, j \in 1..Cardinality(S) : f[i] = f[j] => i = j}

\* "for name, wd := range weekdays" visits the map in an order the language
\* leaves unspecified.  Entries whose name does not match append nothing, so
\* an iteration order is given by the order of the matching entries.
RangeOrders(lower) == Orders(MatchedWeekdays(lower))

\* diff := (int(wd) - int(now.Weekday()) + 7) % 7
WeekdayDiffNoWrap(wd, cur) == GoRem(wd - cur, 7)

WeekdayDiff(wd, cur) == GoRem(wd - cur + 7, 7)

\* The relative-day rules, on the lower-cased text.
RelativeDatesTodayOnly(lower, t) ==
    IF Contains(lower, PhraseToday) THEN <<Format(t)>>
    ELSE IF Contains(lower, PhraseYesterday) THEN <<Format(AddDate(t, 0 - 1))>>
    ELSE IF Contains(lower, PhraseTomorrow) THEN <<Format(AddDate(t, 1))>>
    ELSE <<>>

RelativeDates(lower, t) ==
    (IF Contains(lower, PhraseToday) THEN <<Format(t)>> ELSE <<>>)
    \o (IF Contains(lower, PhraseYesterday) THEN <<Format(AddDate(t, 0 - 1))>> ELSE <<>>)
    \o (IF Contains(lower, PhraseTomorrow) THEN <<Format(AddDate(t, 1))>> ELSE <<>>)

\* The weekday rule, visiting the matching entries of weekdays in `order`.
WeekdayDates(order, t) ==
    [i \in 1..Len(order) |->
        Format(AddDate(t, WeekdayDiff(weekdays[order[i]].wd, Weekday(t))))]

\* \b at position i of s: between s[i-1] and s[i].
IsWordAt(s, i) == i >= 1 /\ i <= Len(s) /\ IsWordChar(s[i])

WordBoundary(s, i) == IsWordAt(s, i - 1) # IsWordAt(s, i)

DigitsAt(s, i, n) == i + n - 1 <= Len(s) /\ \A k \in i..(i + n - 1) : IsDigit(s[k])

CharAt(s, i, set) == i <= Len(s) /\ s[i] \in set

\* isoRe: \b\d{4}-\d{2}-\d{2}\b matches s at position i.
IsoMatchAtRealDate(s, i) ==
    /\ DigitsAt(s, i, 4)
    /\ WordBoundary(s, i)
    /\ CharAt(s, i + 4, {"-"})
    /\ DigitsAt(s, i + 5, 2)
    /\ CharAt(s, i + 7, {"-"})
    /\ DigitsAt(s, i + 8, 2)
    /\ WordBoundary(s, i + 10)
    /\ DigitVal(s[i + 5]) * 10 + DigitVal(s[i + 6]) \in 1..12
    /\ DigitVal(s[i + 8]) * 10 + DigitVal(s[i + 9]) \in 1..31

IsoMatchAt(s, i) ==
    /\ DigitsAt(s, i, 4)
    /\ WordBoundary(s, i)
    /\ CharAt(s, i + 4, {"-"})
    /\ DigitsAt(s, i + 5, 2)
    /\ CharAt(s, i + 7, {"-"})
    /\ DigitsAt(s, i + 8, 2)
    /\ WordBoundary(s, i + 10)

\* isoRe.FindAllString(noteContent, -1): leftmost, non-overlapping matches.
RECURSIVE IsoFindAll(_, _)
IsoFindAll(s, i) ==
    IF i > Len(s) THEN <<>>
    ELSE IF IsoMatchAt(s, i)
         THEN <<SubSeq(s, i, i + 9)>> \o IsoFindAll(s, i + 10)
         ELSE IsoFindAll(s, i + 1)

\* dmyRe with a day of dl digits and a month of ml digits matches s at i.
DmyShapeAt(s, i, dl, ml) ==
    /\ DigitsAt(s, i, dl)
    /\ WordBoundary(s, i)
    /\ CharAt(s, i + dl, {".", "/"})
    /\ DigitsAt(s, i + dl + 1, ml)
    /\ CharAt(s, i + dl + 1 + ml, {".", "/"})
    /\ DigitsAt(s, i + dl + ml + 2, 4)
    /\ WordBoundary(s, i + dl + ml + 6)

\* Length of the match of dmyRe, \b(\d{1,2})[./](\d{1,2})[./](\d{4})\b, at
\* position i of s, 0 when there is none (every match starts with a digit
\* at a word boundary).  \d{1,2} is greedy: two digits are tried before
\* one, the day before the month.
DmyMatchLen(s, i) ==
    IF ~(DigitsAt(s, i, 1) /\ WordBoundary(s, i)) THEN 0
    ELSE IF DmyShapeAt(s, i, 2, 2) THEN 10
    ELSE IF DmyShapeAt(s, i, 2, 1) THEN 9
    ELSE IF DmyShapeAt(s, i, 1, 2) THEN 9
    ELSE IF DmyShapeAt(s, i, 1, 1) THEN 8
    ELSE 0

\* dmyRe.FindAllString(noteContent, -1)
RECURSIVE DmyFindAll(_, _)
DmyFindFrom(s, i, len) ==
    IF len > 0 THEN <<SubSeq(s, i, i + len - 1)>> \o DmyFindAll(s, i + len)
    ELSE DmyFindAll(s, i + 1)

DmyFindAll(s, i) == IF i > Len(s) THEN <<>> ELSE DmyFindFrom(s, i, DmyMatchLen(s, i))

\* norm := strings.ReplaceAll(strings.ReplaceAll(match, ".", "-"), "/", "-")
normDotsOnly(match) ==
    [i \in 1..Len(match) |-> IF match[i] = "." THEN "-" ELSE match[i]] \o <<>>

norm(match) ==
    [i \in 1..Len(match) |-> IF match[i] \in {".", "/"} THEN "-" ELSE match[i]] \o <<>>

\* getnum of package time: the number at position i of s and the position
\* after it; a fixed-width number needs two digits, otherwise one or two.
GetNum(s, i, fixed) ==
    IF ~DigitsAt(s, i, 1) THEN [ok |-> FALSE, val |-> 0, next |-> i]
    ELSE IF ~DigitsAt(s, i, 2)
         THEN (IF fixed THEN [ok |-> FALSE, val |-> 0, next |-> i]
               ELSE [ok |-> TRUE, val |-> DigitVal(s[i]), next |-> i + 1])
         ELSE [ok |-> TRUE, val |-> DigitVal(s[i]) * 10 + DigitVal(s[i + 1]), next |-> i + 2]

\* The year of layout element 2006: exactly the next four characters.
GetYear(s, i) ==
    IF ~DigitsAt(s, i, 4) THEN [ok |-> FALSE, val |-> 0, next |-> i]
    ELSE [ok |-> TRUE,
          val |-> DigitVal(s[i]) * 1000 + DigitVal(s[i + 1]) * 100
                  + DigitVal(s[i + 2]) * 10 + DigitVal(s[i + 3]),
          next |-> i + 4]

\* The range checks of time.Parse on month and day.
ValidDateNoDayCheck(y, m, d) == m >= 1 /\ m <= 12

ValidDate(y, m, d) == m >= 1 /\ m <= 12 /\ d >= 1 /\ d <= DaysIn(m, y)

\* time.Parse("2-1-2006", s) with fixed = FALSE, time.Parse("02-01-2006", s)
\* with fixed = TRUE: [ok, t].  The day, then "-", the month, then "-", the
\* year, then the end of s; the range checks come last.
ParseFailed == [ok |-> FALSE, t |-> [y |-> 0, m |-> 0, d |-> 0]]

ParseEnd(s, day, month, year) ==
    IF ~year.ok \/ year.next # Len(s) + 1 THEN ParseFailed
    ELSE IF ~ValidDate(year.val, month.val, day.val) THEN ParseFailed
    ELSE [ok |-> TRUE, t |-> [y |-> year.val, m |-> month.val, d |-> day.val]]

ParseYear(s, day, month) ==
    IF ~month.ok \/ ~CharAt(s, month.next, {"-"}) THEN ParseFailed
    ELSE ParseEnd(s, day, month, GetYear(s, month.next + 1))

ParseMonth(s, fixed, day) ==
    IF ~day.ok \/ ~CharAt(s, day.next, {"-"}) THEN ParseFailed
    ELSE ParseYear(s, day, GetNum(s, day.next + 1, fixed))

ParseDMY(s, fixed) == ParseMonth(s, fixed, GetNum(s, 1, fixed))

\* The body of the loop over the matches of dmyRe: the dates that one match
\* appends, given the results t and t2 of the two calls of time.Parse.
DmyParsed(t, t2) ==
    IF t.ok THEN <<Format(t.t)>>
    ELSE IF t2.ok THEN <<Format(t2.t)>>
    ELSE <<>>

DmyDateOf(n) == DmyParsed(ParseDMY(n, FALSE), ParseDMY(n, TRUE))

DmyDate(match) == DmyDateOf(norm(match))

RECURSIVE DmyDates(_)
DmyDates(matches) ==
    IF matches = <<>> THEN <<>>
    ELSE DmyDate(Head(matches)) \o DmyDates(Tail(matches))

IsoDates(matches) == [i \in 1..Len(matches) |-> Str(matches[i])]

\* The dedupe loop: d is appended to uniq unless seen holds it.
RECURSIVE uniqLoop(_, _)
uniqLoop(ds, acc) ==
    IF ds = <<>> THEN acc
    ELSE uniqLoop(Tail(ds),
                  IF \E i \in 1..Len(acc) : acc[i] = Head(ds) THEN acc
                  ELSE Append(acc, Head(ds)))

uniqNone(ds) == ds

uniq(ds) == uniqLoop(ds, <<>>)

\* The slice dates before the dedupe loop.
AllDatesDmyBeforeIso(noteContent, t, order) ==
    RelativeDates(ToLower(noteContent), t)
    \o WeekdayDates(order, t)
    \o DmyDates(DmyFindAll(noteContent, 1))
    \o IsoDates(IsoFindAll(noteContent, 1))

AllDatesCaseSensitive(noteContent, t, order) ==
    RelativeDates(noteContent, t)
    \o WeekdayDates(order, t)
    \o IsoDates(IsoFindAll(noteContent, 1))
    \o DmyDates(DmyFindAll(noteContent, 1))

AllDates(noteContent, t, order) ==
    RelativeDates(ToLower(noteContent), t)
    \o WeekdayDates(order, t)
    \o IsoDates(IsoFindAll(noteContent, 1))
    \o DmyDates(DmyFindAll(noteContent, 1))

\* extractDateKeywords(noteContent) at current date t, range order `order`.
extractDateKeywords(noteContent, t, order) == uniq(AllDates(noteContent, t, order))

-----------------------------------------------------------------------------
(* The keyword merge and extractKeywords.                                  *)

\* The loop that merges the dates ds into the suggested keywords:
\* a date is appended unless the list holds it already.
RECURSIVE MergeDatesAlways(_, _)
MergeDatesAlways(kws, ds) ==
    IF ds = <<>> THEN kws ELSE MergeDatesAlways(Append(kws, Head(ds)), Tail(ds))

MergeDatesNever(kws, ds) == kws

RECURSIVE MergeDatesFront(_, _)
MergeDatesFront(kws, ds) ==
    IF ds = <<>> THEN kws
    ELSE IF \E i \in 1..Len(kws) : kws[i] = Head(ds)
         THEN MergeDatesFront(kws, Tail(ds))
         ELSE MergeDatesFront(<<Head(ds)>> \o kws, Tail(ds))

RECURSIVE MergeDates(_, _)
MergeDates(kws, ds) ==
    IF ds = <<>> THEN kws
    ELSE IF \E i \in 1..Len(kws) : kws[i] = Head(ds)
         THEN MergeDates(kws, Tail(ds))
         ELSE MergeDates(Append(kws, Head(ds)), Tail(ds))

\* A remote reply is [err, status, bodyOk, choices]: err is a failure of
\* client.Do (transport error or timeout), bodyOk says that the body
\* unmarshals into chatCompletionResponse, choices holds the message
\* contents.  A message content is [jsonOk, hasKeywords, keywords]: jsonOk
\* says that the cleaned content unmarshals into the struct parsed,
\* hasKeywords that the object has the field "keywords".
Failed == [err |-> TRUE, keywords |-> <<>>]

\* extractKeywords(noteContent, existing) with OPENAI_API_KEY = apiKey, the
\* remote service answering reply, at date t and range order `order`.
extractKeywords(noteContent, apiKey, reply, t, order) ==
    IF apiKey = "" THEN Failed
    ELSE IF reply.err THEN Failed
    ELSE IF reply.status # 200 THEN Failed
    ELSE IF ~reply.bodyOk THEN Failed
    ELSE IF Len(reply.choices) < 1 THEN Failed
    ELSE IF ~reply.choices[1].jsonOk THEN Failed
    ELSE [err |-> FALSE,
          keywords |-> MergeDates(
              IF reply.choices[1].hasKeywords THEN reply.choices[1].keywords ELSE <<>>,
              extractDateKeywords(noteContent, t, order))]

\* The reply of a remote service that suggests the keywords S.
OkReply(S) ==
    [err |-> FALSE, status |-> 200, bodyOk |-> TRUE,
     choices |-> <<[jsonOk |-> TRUE, hasKeywords |-> TRUE, keywords |-> S]>>]

-----------------------------------------------------------------------------
(* Inputs of the recognizer specification.                                 *)

TokToday == <<"I", " ", "d", "a", "g">>
TokYesterday == <<"i", " ", "G", "Å", "R">>
TokTomorrow == <<"i", " ", "m", "o", "r", "g", "e", "n">>
TokIso == <<"2", "0", "2", "4", "-", "0", "2", "-", "2", "9">>
TokIsoNoDate == <<"2", "0", "2", "4", "-", "1", "3", "-", "4", "5">>
TokIsoGlued == <<"v", "2", "0", "2", "4", "-", "0", "3", "-", "0", "1">>
TokDmy == <<"2", "9", ".", "0", "2", ".", "2", "0", "2", "4">>
TokDmyShort == <<"1", "/", "3", ".", "2", "0", "2", "4">>
TokDmyGlued == <<"2", "8", ".", "0", "2", ".", "2", "0", "2", "4", "k", "l">>
TokDmyDay31 == <<"3", "1", ".", "0", "4", ".", "2", "0", "2", "4">>
TokDmyNoLeap == <<"2", "9", ".", "2", ".", "2", "0", "2", "5">>
TokDmyMonth13 == <<"1", ".", "1", "3", ".", "2", "0", "2", "4">>
TokDmyDay0 == <<"0", "/", "3", "/", "2", "0", "2", "4">>

WeekdayTokens ==
    { <<"M", "a", "n", "d", "a", "g">>, <<"t", "i", "r", "s", "d", "a", "g">>,
      <<"o", "n", "s", "d", "a", "g">>, <<"t", "o", "r", "s", "d", "a", "g">>,
      <<"F", "R", "E", "D", "A", "G">>, <<"l", "ø", "r", "d", "a", "g">>,
      <<"S", "Ø", "N", "D", "A", "G">> }

RelativeTokens == {TokToday, TokYesterday, TokTomorrow}

IsoTokens == {TokIso, TokIsoNoDate, TokIsoGlued}

ValidDmyTokens == {TokDmy, TokDmyShort, TokDmyGlued}

InvalidDmyTokens == {TokDmyDay31, TokDmyNoLeap, TokDmyMonth13, TokDmyDay0}

Tokens ==
    RelativeTokens \cup WeekdayTokens \cup IsoTokens
    \cup ValidDmyTokens \cup InvalidDmyTokens

\* strings.Join(ts, " ")
RECURSIVE Join(_)
Join(ts) ==
    IF ts = <<>> THEN <<>>
    ELSE IF Len(ts) = 1 THEN ts[1]
    ELSE Head(ts) \o <<" ">> \o Join(Tail(ts))

\* The sequences of at most MaxTokens words taken from a set of tokens.
WordLists(tokens) == UNION {[1..n -> tokens] : n \in 0..MaxTokens}

\* Current dates: the week from Monday 2024-02-26 to Sunday 2024-03-03,
\* which holds a leap day and a month end.
RefDates ==
    {[y |-> 2024, m |-> 2, d |-> d] : d \in 26..29}
    \cup {[y |-> 2024, m |-> 3, d |-> d] : d \in 1..3}

\* Suggested keyword lists of a successful reply for a text with dates ds.
Reverse(s) == [i \in 1..Len(s) |-> s[Len(s) + 1 - i]]

SuggestedLists(ds) ==
    { <<>>, <<"gaver">>, <<"gaver", "gaver">>, <<"2024-02-29", "handle">>,
      ds, Reverse(ds), <<"handle">> \o ds, SubSeq(ds, 2, Len(ds)) \o <<"gaver">> }

-----------------------------------------------------------------------------------------------------------------------------------------------------
(* The store and the statements the handlers run on it.                    *)

\* A remote reply that was never requested.
NoReply == [err |-> FALSE, status |-> 0, bodyOk |-> FALSE, choices |-> <<>>]

NoRequest ==
    [op |-> "none", method |-> "", id |-> 0, content |-> <<>>, kwInput |-> <<>>,
     apiKey |-> "", reply |-> NoReply, status |-> 0, wrote |-> FALSE,
     remoteCalls |-> 0, extractErr |-> FALSE, autoKeys |-> <<>>]

\* The goroutines that serve requests step by step, and the state of one
\* that serves no request: [req, pc, names] with the request, the statement
\* the handler is at and the keyword names it has still to link.
Handlers == {"h1"}

NoStep == [req |-> NoRequest, pc |-> "idle", names |-> <<>>]

StoreInit ==
    /\ notes = << >>
    /\ keywords = {}
    /\ note_keywords = << >>
    /\ clock = 1
    /\ served = 0
    /\ last = NoRequest
    /\ inflight = [h \in Handlers |-> NoStep]

\* keywords.id is INTEGER PRIMARY KEY AUTOINCREMENT: one more than the
\* largest id ever used (no statement deletes a keyword).
NextKeywordId(kws) ==
    IF kws = {} THEN 1
    ELSE 1 + (CHOOSE n \in {k.id : k \in kws} : \A k \in kws : k.id <= n)

\* INSERT OR IGNORE INTO keywords(name) VALUES(?): name is UNIQUE.
InsertKeywordNoUnique(kws, name) ==
    kws \cup {[id |-> NextKeywordId(kws), name |-> name]}

InsertKeyword(kws, name) ==
    IF \E k \in kws : k.name = name THEN kws
    ELSE kws \cup {[id |-> NextKeywordId(kws), name |-> name]}

\* SELECT id FROM keywords WHERE name = ?: the first row that matches.
KeywordId(kws, name) ==
    LET ids == {k.id : k \in {r \in kws : r.name = name}}
    IN  CHOOSE n \in ids : \A m \in ids : n <= m

\* INSERT OR IGNORE INTO note_keywords(note_id, keyword_id) VALUES(?, ?):
\* (note_id, keyword_id) is the PRIMARY KEY.
InsertLinkNoKey(links, noteID, kid) == Append(links, <<noteID, kid>>)

InsertLinkKeywordKey(links, noteID, kid) ==
    IF \E i \in 1..Len(links) : links[i][2] = kid THEN links
    ELSE Append(links, <<noteID, kid>>)

InsertLink(links, noteID, kid) ==
    IF \E i \in 1..Len(links) : links[i] = <<noteID, kid>> THEN links
    ELSE Append(links, <<noteID, kid>>)

\* DELETE FROM note_keywords WHERE note_id = ?, on the pair db.
ClearKeywordsAndOrphans(db, noteID) ==
    [keywords |-> {k \in db.keywords :
                      \E i \in 1..Len(db.note_keywords) :
                          /\ db.note_keywords[i][2] = k.id
                          /\ db.note_keywords[i][1] # noteID},
     note_keywords |-> SelectSeq(db.note_keywords, LAMBDA nk : nk[1] # noteID)]

ClearKeywordsNone(db, noteID) == db

ClearKeywords(db, noteID) ==
    [keywords |-> db.keywords,
     note_keywords |-> SelectSeq(db.note_keywords, LAMBDA nk : nk[1] # noteID)]

\* UPDATE notes SET content = ? WHERE id = ?
UpdateNoteAll(ns, noteID, content) ==
    [n \in DOMAIN ns |-> [ns[n] EXCEPT !.content = content]]

UpdateNote(ns, noteID, content) ==
    [n \in DOMAIN ns |-> IF n = noteID THEN [ns[n] EXCEPT !.content = content] ELSE ns[n]]

\* INSERT INTO notes(id, content, created_at) VALUES(?, ?, ?)
InsertNote(ns, newID, content, createdAt) ==
    ns @@ (newID :> [content |-> content, created_at |-> createdAt])

\* r.Method == http.MethodPost
IsPostAny(method) == TRUE

IsPost(method) == method = "POST"

\* if content == ""
EmptyContentNever(content) == FALSE

EmptyContent(content) == content = <<>>

\* One round of the loop over the keyword names of a request, on the pair
\* db = [keywords, note_keywords]: insert the name, look its id up, link it.
LinkInserted(kws, links, noteID, name) ==
    [keywords |-> kws, note_keywords |-> InsertLink(links, noteID, KeywordId(kws, name))]

LinkKeyword(db, noteID, name) ==
    LinkInserted(InsertKeyword(db.keywords, name), db.note_keywords, noteID, name)

RECURSIVE LinkKeywords(_, _, _)
LinkKeywords(db, noteID, names) ==
    IF names = <<>> THEN db
    ELSE LinkKeywords(LinkKeyword(db, noteID, Head(names)), noteID, Tail(names))

\* strings.Split(s, ","): the pieces of s between the commas.
RECURSIVE Split(_)
SplitAt(s, i) == <<SubSeq(s, 1, i - 1)>> \o Split(SubSeq(s, i + 1, Len(s)))

Split(s) ==
    IF \A i \in 1..Len(s) : s[i] # "," THEN <<s>>
    ELSE SplitAt(s, CHOOSE j \in 1..Len(s) : s[j] = "," /\ \A k \in 1..(j - 1) : s[k] # ",")

\* strings.TrimSpace
IsSpace(c) == c \in {" ", "\t", "\n", "\r"}

RECURSIVE TrimSpace(_)
TrimSpace(s) ==
    IF s = <<>> THEN s
    ELSE IF IsSpace(s[1]) THEN TrimSpace(Tail(s))
    ELSE IF IsSpace(s[Len(s)]) THEN TrimSpace(SubSeq(s, 1, Len(s) - 1))
    ELSE s

\* The names the loop over strings.Split(kwInput, ",") links: every part
\* trimmed, empty parts skipped.
RECURSIVE TrimmedNames(_)
NameOfKeepEmpty(name) == <<Str(name)>>

NameOf(name) == IF name = <<>> THEN <<>> ELSE <<Str(name)>>

TrimmedNames(parts) ==
    IF parts = <<>> THEN <<>>
    ELSE NameOf(TrimSpace(Head(parts))) \o TrimmedNames(Tail(parts))

ExplicitNames(kwInput) == TrimmedNames(Split(kwInput))

\* What a POST handler does with the result r of extractKeywords: the
\* keywords are linked, none when it failed.
\* Yields [db, remoteCalls, extractErr, autoKeys].
AssignAuto(db, noteID, apiKey, r) ==
    [db |-> IF r.err THEN db ELSE LinkKeywords(db, noteID, r.keywords),
     remoteCalls |-> IF apiKey = "" THEN 0 ELSE 1,
     extractErr |-> r.err,
     autoKeys |-> r.keywords]

\* The part of both POST handlers after the note row is written and, on
\* edit, the note's links are deleted: the explicit list when one is given,
\* otherwise the keywords of extractKeywords.
AssignKeywords(db, noteID, content, kwInput, apiKey, reply, t, order) ==
    IF kwInput # <<>>
    THEN [db |-> LinkKeywords(db, noteID, ExplicitNames(kwInput)),
          remoteCalls |-> 0, extractErr |-> FALSE, autoKeys |-> <<>>]
    ELSE AssignAuto(db, noteID, apiKey,
                    extractKeywords(content, apiKey, reply, t, order))

-----------------------------------------------------------------------------
(* Specification of the recognizer and the merge as pure functions: the    *)
(* text and the current date are drawn in the initial state, Recognize     *)
(* applies extractDateKeywords.                                            *)

DatesInit ==
    /\ words \in WordLists(Tokens)
    /\ text = Join(words)
    /\ now \in RefDates
    /\ pc = "input"
    /\ dates = <<>>
    /\ suggested = <<>>
    /\ merged = <<>>
    /\ StoreInit

Recognize ==
    /\ pc = "input"
    /\ \E order \in RangeOrders(ToLower(text)) :
          dates' = extractDateKeywords(text, now, order)
    /\ pc' = "recognized"
    /\ UNCHANGED <<words, text, now, suggested, merged, storeVars>>

DatesNext == Recognize

SpecDates == DatesInit /\ [][DatesNext]_vars

-----------------------------------------------------------------------------
(* Specification of the merge: Recognize as above, Extract applies         *)
(* extractKeywords to a successful reply, ExtractAgain feeds the result    *)
(* back as the suggested list.                                             *)

MergeTokens ==
    {TokToday, TokYesterday, TokIso, TokDmyShort, TokDmyDay31,
     <<"t", "o", "r", "s", "d", "a", "g">>}

MergeInit ==
    /\ words \in WordLists(MergeTokens)
    /\ text = Join(words)
    /\ now \in RefDates
    /\ pc = "input"
    /\ dates = <<>>
    /\ suggested = <<>>
    /\ merged = <<>>
    /\ StoreInit

Extract ==
    /\ pc = "recognized"
    /\ \E S \in SuggestedLists(dates), order \in RangeOrders(ToLower(text)) :
          /\ suggested' = S
          /\ merged' = extractKeywords(text, "sk", OkReply(S), now, order).keywords
    /\ pc' = "merged"
    /\ UNCHANGED <<words, text, now, dates, storeVars>>

ExtractAgain ==
    /\ pc = "merged"
    /\ \E order \in RangeOrders(ToLower(text)) :
          merged' = extractKeywords(text, "sk", OkReply(merged), now, order).keywords
    /\ suggested' = merged
    /\ pc' = "remerged"
    /\ UNCHANGED <<words, text, now, dates, storeVars>>

MergeNext == Recognize \/ Extract \/ ExtractAgain

SpecMerge == MergeInit /\ [][MergeNext]_vars

-----------------------------------------------------------------------------
(* Specification of the recognizer on texts around the ISO rule: the shape *)
(* free-standing, next to punctuation and to letters outside ASCII, and    *)
(* glued to letters, digits and underscores.                               *)

TokIsoAfterNonAscii == <<"p", "å", "2", "0", "2", "4", "-", "0", "3", "-", "0", "4">>
TokIsoInParens == <<"(", "2", "0", "2", "4", "-", "0", "3", "-", "0", "6", ")", ".">>
TokIsoBeforeLetters == <<"2", "0", "2", "4", "-", "0", "3", "-", "0", "2", "k", "l">>
TokIsoAfterDigit == <<"1", "2", "0", "2", "4", "-", "0", "3", "-", "0", "5">>
TokIsoBeforeDigit == <<"2", "0", "2", "4", "-", "0", "3", "-", "0", "9", "1">>
TokIsoAfterUnderscore == <<"_", "2", "0", "2", "4", "-", "0", "3", "-", "0", "7">>
TokIsoShortMonth == <<"2", "0", "2", "4", "-", "3", "-", "0", "8">>

IsoScanTokens ==
    {TokIso, TokIsoNoDate, TokIsoGlued, TokIsoAfterNonAscii, TokIsoInParens,
     TokIsoBeforeLetters, TokIsoAfterDigit, TokIsoBeforeDigit,
     TokIsoAfterUnderscore, TokIsoShortMonth}

IsoInit ==
    /\ words \in WordLists(IsoScanTokens)
    /\ text = Join(words)
    /\ now \in RefDates
    /\ pc = "input"
    /\ dates = <<>>
    /\ suggested = <<>>
    /\ merged = <<>>
    /\ StoreInit

SpecIso == IsoInit /\ [][DatesNext]_vars

-----------------------------------------------------------------------------
(* Specification of the recognizer on texts of day-month-year dates, valid *)
(* and invalid, next to words of the other rules.                          *)

DmyScanTokens ==
    ValidDmyTokens \cup InvalidDmyTokens
    \cup {TokToday, TokIso,
          <<"t", "o", "r", "s", "d", "a", "g">>, <<"o", "n", "s", "d", "a", "g">>}

DmyInit ==
    /\ words \in WordLists(DmyScanTokens)
    /\ text = Join(words)
    /\ now \in RefDates
    /\ pc = "input"
    /\ dates = <<>>
    /\ suggested = <<>>
    /\ merged = <<>>
    /\ StoreInit

SpecDmy == DmyInit /\ [][DatesNext]_vars

-----------------------------------------------------------------------------
(* Specification of the recognizer called repeatedly on one text at one    *)
(* current date: RecognizeAgain is a further call of extractDateKeywords,  *)
(* whose range over the map weekdays may take another order.               *)

TokIsoMarch == <<"2", "0", "2", "4", "-", "0", "3", "-", "0", "1">>

OrderTokens ==
    {TokToday, TokYesterday, TokTomorrow,
     <<"t", "o", "r", "s", "d", "a", "g">>, <<"o", "n", "s", "d", "a", "g">>,
     TokIso, TokIsoMarch, TokIsoNoDate, TokDmy, TokDmyShort}

OrderInit ==
    /\ words \in WordLists(OrderTokens)
    /\ text = Join(words)
    /\ now \in RefDates
    /\ pc = "input"
    /\ dates = <<>>
    /\ suggested = <<>>
    /\ merged = <<>>
    /\ StoreInit

RecognizeAgain ==
    /\ pc = "recognized"
    /\ \E order \in RangeOrders(ToLower(text)) :
          dates' = extractDateKeywords(text, now, order)
    /\ pc' = "recognized"
    /\ UNCHANGED <<words, text, now, suggested, merged, storeVars>>

OrderNext == Recognize \/ RecognizeAgain

SpecOrder == OrderInit /\ [][OrderNext]_vars

-----------------------------------------------------------------------------
(* Specification of the request handlers.  One action serves one request   *)
(* from its first statement to its response.                               *)

NoteContents ==
    { <<"h", "a", "n", "d", "l", "e", " ", "g", "a", "v", "e", "r">>,
      <<"i", " ", "G", "Å", "R", " ", "1", "/", "3", ".", "2", "0", "2", "4", " ", "t", "o", "r", "s", "d", "a", "g">> }

KwInputs ==
    { <<"j", "o", "b", "b", ",", " ", "J", "o", "b", "b">>,
      <<" ", "j", "o", "b", "b", ",", ",", "j", "o", "b", "b", " ", ",", " ">> }

Suggestions ==
    { <<"jobb">>, <<"gaver", "gaver", "">>, <<"2024-02-29", "handle">> }

FailedReplies ==
    { [err |-> TRUE, status |-> 0, bodyOk |-> FALSE, choices |-> <<>>],
      [err |-> FALSE, status |-> 500, bodyOk |-> FALSE, choices |-> <<>>],
      [err |-> FALSE, status |-> 200, bodyOk |-> FALSE, choices |-> <<>>],
      [err |-> FALSE, status |-> 200, bodyOk |-> TRUE, choices |-> <<>>],
      [err |-> FALSE, status |-> 200, bodyOk |-> TRUE,
       choices |-> <<[jsonOk |-> FALSE, hasKeywords |-> FALSE, keywords |-> <<>>]>>] }

Replies ==
    FailedReplies
    \cup {[err |-> FALSE, status |-> 200, bodyOk |-> TRUE,
           choices |-> <<[jsonOk |-> TRUE, hasKeywords |-> FALSE, keywords |-> <<>>]>>]}
    \cup {OkReply(S) : S \in Suggestions}

\* The note ids of edit requests: the stored notes, an id never stored, and
\* the empty id of a path that names no note.
NoSuchId == 0

MissingId == 0 - 1

\* The current date of the handler specification: Thursday 2024-02-29.
HandlerDates == {[y |-> 2024, m |-> 2, d |-> 29]}

Init ==
    /\ words = <<>>
    /\ text = <<>>
    /\ now \in HandlerDates
    /\ pc = "serving"
    /\ dates = <<>>
    /\ suggested = <<>>
    /\ merged = <<>>
    /\ StoreInit

Request(op, method, id, content, kwInput, apiKey, reply) ==
    [op |-> op, method |-> method, id |-> id, content |-> content, kwInput |-> kwInput,
     apiKey |-> apiKey, reply |-> reply, status |-> 0, wrote |-> FALSE,
     remoteCalls |-> 0, extractErr |-> FALSE, autoKeys |-> <<>>]

\* The response of a POST handler that got as far as the keywords, with
\* result a of AssignKeywords: http.Redirect at the end of the handler.
PostStatusAbort(a) == IF a.extractErr THEN 500 ELSE 302

PostStatus(a) == 302

\* The clock advances.
Tick ==
    /\ clock < MaxClock
    /\ clock' = clock + 1
    /\ UNCHANGED <<datesVars, now, notes, keywords, note_keywords, served, last, inflight>>

\* createNoteHandler
createNoteHandler(method, content, kwInput, apiKey, reply, order) ==
    LET req == Request("create", method, clock, content, kwInput, apiKey, reply)
    IN
    /\ served' = served + 1
    /\ IF ~IsPost(method)
       THEN /\ last' = [req EXCEPT !.status = 405]
            /\ UNCHANGED <<notes, keywords, note_keywords>>
       ELSE IF EmptyContent(content)
       THEN /\ last' = [req EXCEPT !.status = 400]
            /\ UNCHANGED <<notes, keywords, note_keywords>>
       ELSE IF clock \in DOMAIN notes
       THEN \* INSERT INTO notes fails: id is the PRIMARY KEY
            /\ last' = [req EXCEPT !.status = 500]
            /\ UNCHANGED <<notes, keywords, note_keywords>>
       ELSE \E a \in {AssignKeywords([keywords |-> keywords, note_keywords |-> note_keywords],
                                      clock, content, kwInput, apiKey, reply, now, order)} :
                /\ notes' = InsertNote(notes, clock, content, clock)
                /\ keywords' = a.db.keywords
                /\ note_keywords' = a.db.note_keywords
                /\ last' = [req EXCEPT !.status = PostStatus(a), !.wrote = TRUE,
                                       !.remoteCalls = a.remoteCalls,
                                       !.extractErr = a.extractErr,
                                       !.autoKeys = a.autoKeys]
    /\ UNCHANGED <<datesVars, now, clock, inflight>>

\* editNoteHandler
editNoteHandler(method, noteID, content, kwInput, apiKey, reply, order) ==
    LET req == Request("edit", method, noteID, content, kwInput, apiKey, reply)
    IN
    /\ served' = served + 1
    /\ IF noteID = MissingId
       THEN /\ last' = [req EXCEPT !.status = 400]
            /\ UNCHANGED <<notes, keywords, note_keywords>>
       ELSE IF method = "GET"
       THEN /\ last' = [req EXCEPT !.status = IF noteID \in DOMAIN notes THEN 200 ELSE 404]
            /\ UNCHANGED <<notes, keywords, note_keywords>>
       ELSE IF ~IsPost(method)
       THEN /\ last' = [req EXCEPT !.status = 405]
            /\ UNCHANGED <<notes, keywords, note_keywords>>
       ELSE IF EmptyContent(content)
       THEN /\ last' = [req EXCEPT !.status = 400]
            /\ UNCHANGED <<notes, keywords, note_keywords>>
       ELSE \E a \in {AssignKeywords(ClearKeywords([keywords |-> keywords,
                                                     note_keywords |-> note_keywords], noteID),
                                      noteID, content, kwInput, apiKey, reply, now, order)} :
                /\ notes' = UpdateNote(notes, noteID, content)
                /\ keywords' = a.db.keywords
                /\ note_keywords' = a.db.note_keywords
                /\ last' = [req EXCEPT !.status = PostStatus(a), !.wrote = TRUE,
                                       !.remoteCalls = a.remoteCalls,
                                       !.extractErr = a.extractErr,
                                       !.autoKeys = a.autoKeys]
    /\ UNCHANGED <<datesVars, now, clock, inflight>>

\* The requests a client can send to a route, as [method, content, kwInput,
\* apiKey, reply, order]; the inputs that the handler does not read on the
\* path a request takes are left empty (order is read by the recognizer,
\* which runs only behind a reply that parses).
Input(method, content, kwInput, apiKey, reply, order) ==
    [method |-> method, content |-> content, kwInput |-> kwInput,
     apiKey |-> apiKey, reply |-> reply, order |-> order]

PostInputs ==
    {Input("POST", <<>>, <<>>, "", NoReply, <<>>)}
    \cup {Input("POST", <<>>, k, "", NoReply, <<>>) : k \in KwInputs}
    \cup {Input("POST", <<>>, <<>>, "sk", OkReply(<<"jobb">>), <<>>)}
    \cup {Input("POST", c, k, "", NoReply, <<>>) : c \in NoteContents, k \in KwInputs}
    \cup {Input("POST", c, <<>>, "", NoReply, <<>>) : c \in NoteContents}
    \cup {Input("POST", c, <<>>, "sk", r, <<>>) : c \in NoteContents, r \in FailedReplies}
    \cup UNION {{Input("POST", c, <<>>, "sk", r, o) : o \in RangeOrders(ToLower(c))} :
                   c \in NoteContents, r \in Replies \ FailedReplies}

CreateInputs == {Input("GET", <<>>, <<>>, "", NoReply, <<>>)} \cup PostInputs

EditInputs ==
    {Input(m, <<>>, <<>>, "", NoReply, <<>>) : m \in {"GET", "PUT"}} \cup PostInputs

Create ==
    /\ served < MaxRequests
    /\ \E in \in CreateInputs :
          createNoteHandler(in.method, in.content, in.kwInput, in.apiKey, in.reply, in.order)

Edit ==
    /\ served < MaxRequests
    /\ \/ \E noteID \in DOMAIN notes \cup {NoSuchId}, in \in EditInputs :
             editNoteHandler(in.method, noteID, in.content, in.kwInput, in.apiKey,
                             in.reply, in.order)
       \/ editNoteHandler("GET", MissingId, <<>>, <<>>, "", NoReply, <<>>)

Next == Tick \/ Create \/ Edit

Spec == Init /\ [][Next]_vars

-----------------------------------------------------------------------------
(* Specification of the routes that read and of the requests that are      *)
(* rejected, next to creates and edits with an explicit list that fill the *)
(* store.  The record of a request to /keyword/ holds the keyword of the   *)
(* path in the field kwInput.                                              *)

ReadContent == <<"h", "a", "n", "d", "l", "e", " ", "g", "a", "v", "e", "r">>

ReadKwInput == <<"j", "o", "b", "b", ",", " ", "J", "o", "b", "b">>

\* A POST with an explicit list, and requests with other methods that carry
\* the same form values and a credential.
ReadPost == Input("POST", ReadContent, ReadKwInput, "", NoReply, <<>>)

ReadRejected ==
    {Input(m, ReadContent, <<>>, "sk", OkReply(<<"jobb">>), <<>>) : m \in {"GET", "PUT"}}

\* A read-only handler answers: nothing but the response is written.
Reply(req, status) ==
    /\ served' = served + 1
    /\ last' = [req EXCEPT !.status = status]
    /\ UNCHANGED <<datesVars, now, clock, notes, keywords, note_keywords, inflight>>

\* listNotesHandler
listNotesHandler(method) ==
    Reply(Request("list", method, MissingId, <<>>, <<>>, "", NoReply), 200)

\* viewNoteHandler
viewNoteHandler(method, noteID) ==
    Reply(Request("view", method, noteID, <<>>, <<>>, "", NoReply),
          IF noteID = MissingId THEN 400
          ELSE IF noteID \in DOMAIN notes THEN 200 ELSE 404)

\* listKeywordsHandler
listKeywordsHandler(method) ==
    Reply(Request("keywords", method, MissingId, <<>>, <<>>, "", NoReply), 200)

\* notesByKeywordHandler
notesByKeywordHandler(method, keyword) ==
    Reply(Request("bykeyword", method, MissingId, <<>>, keyword, "", NoReply),
          IF keyword = <<>> THEN 400 ELSE 200)

ReadMethods == {"GET", "POST"}

ListNotes == served < MaxRequests /\ \E m \in ReadMethods : listNotesHandler(m)

ViewNote ==
    /\ served < MaxRequests
    /\ \E m \in ReadMethods, noteID \in DOMAIN notes \cup {NoSuchId, MissingId} :
          viewNoteHandler(m, noteID)

ListKeywords == served < MaxRequests /\ \E m \in ReadMethods : listKeywordsHandler(m)

NotesByKeyword ==
    /\ served < MaxRequests
    /\ \E m \in ReadMethods, keyword \in {<<>>, <<"j", "o", "b", "b">>, <<"i", "n", "g", "e", "n">>} :
          notesByKeywordHandler(m, keyword)

ReadCreate ==
    /\ served < MaxRequests
    /\ \E in \in {ReadPost} \cup ReadRejected :
          createNoteHandler(in.method, in.content, in.kwInput, in.apiKey, in.reply, in.order)

ReadEdit ==
    /\ served < MaxRequests
    /\ \/ \E noteID \in DOMAIN notes \cup {NoSuchId},
             in \in {Input("GET", <<>>, <<>>, "", NoReply, <<>>)} \cup ReadRejected :
             editNoteHandler(in.method, noteID, in.content, in.kwInput, in.apiKey,
                             in.reply, in.order)
       \/ editNoteHandler("GET", MissingId, <<>>, <<>>, "", NoReply, <<>>)

ReadsNext ==
    Tick \/ ReadCreate \/ ReadEdit \/ ListNotes \/ ViewNote \/ ListKeywords \/ NotesByKeyword

SpecReads == Init /\ [][ReadsNext]_vars

-----------------------------------------------------------------------------
(* Specification of the request handlers statement by statement: a handler *)
(* h takes a request, writes the note row, on edit deletes the note's      *)
(* links, decides where the keywords come from, waits for the remote       *)
(* reply, links the names one by one and answers.                          *)

StepKwInputs ==
    { <<"j", "o", "b", "b", ",", " ", "j", "o", "b", "b">>,
      <<"J", "o", "b", "b">> }

StepReplies ==
    { [err |-> FALSE, status |-> 500, bodyOk |-> FALSE, choices |-> <<>>],
      OkReply(<<"gaver", "gaver", "jobb">>) }

StepContents ==
    [plain |-> <<"h", "a", "n", "d", "l", "e", " ", "g", "a", "v", "e", "r">>,
     dated |-> <<"i", " ", "G", "Å", "R", " ", "1", "/", "3", ".", "2", "0", "2", "4", " ", "t", "o", "r", "s", "d", "a", "g">>]

\* The requests of the step specification; the reply is drawn when the
\* remote call returns.
StepGet == Input("GET", <<>>, <<>>, "", NoReply, <<>>)

StepExplicit ==
    {Input("POST", StepContents.plain, k, "", NoReply, <<>>) : k \in StepKwInputs}

StepInputs ==
    {StepGet, Input("POST", <<>>, <<>>, "", NoReply, <<>>)}
    \cup StepExplicit
    \cup {Input("POST", StepContents.plain, <<>>, "", NoReply, <<>>),
          Input("POST", StepContents.dated, <<>>, "sk", NoReply, <<>>)}

\* The edit requests: any request for a stored note, a page request and an
\* explicit list for an id that is not stored, a page request without id.
StepEdits ==
    {[noteID |-> n, in |-> in] : n \in DOMAIN notes, in \in StepInputs}
    \cup {[noteID |-> NoSuchId, in |-> in] :
             in \in {StepGet, Input("PUT", <<>>, <<>>, "", NoReply, <<>>)} \cup StepExplicit}
    \cup {[noteID |-> MissingId, in |-> StepGet]}

\* Requests taken so far.
Begun == served + Cardinality({h \in DOMAIN inflight : inflight[h].pc # "idle"})

\* The handler answers with the status and returns.
Answer(h, req, status) ==
    /\ served' = served + 1
    /\ last' = [req EXCEPT !.status = status]
    /\ inflight' = [inflight EXCEPT ![h] = NoStep]

\* createNoteHandler from its first statement to INSERT INTO notes, for a
\* request of the set ins, the max-th request at most.
CreateFrom(h, ins, max) ==
    /\ inflight[h].pc = "idle"
    /\ Begun < max
    /\ \E in \in ins :
          \E req \in {Request("create", in.method, clock, in.content, in.kwInput,
                              in.apiKey, NoReply)} :
             IF ~IsPost(in.method)
             THEN Answer(h, req, 405) /\ UNCHANGED notes
             ELSE IF EmptyContent(in.content)
             THEN Answer(h, req, 400) /\ UNCHANGED notes
             ELSE IF clock \in DOMAIN notes
             THEN Answer(h, req, 500) /\ UNCHANGED notes
             ELSE /\ notes' = InsertNote(notes, clock, in.content, clock)
                  /\ inflight' = [inflight EXCEPT ![h] =
                                     [req |-> [req EXCEPT !.wrote = TRUE],
                                      pc |-> "assign", names |-> <<>>]]
                  /\ UNCHANGED <<served, last>>
    /\ UNCHANGED <<datesVars, now, clock, keywords, note_keywords>>

CreateBegin(h) == CreateFrom(h, StepInputs, MaxStepRequests)

\* editNoteHandler from its first statement to UPDATE notes, for a request
\* of the set edits, the max-th request at most.
EditFrom(h, edits, max) ==
    /\ inflight[h].pc = "idle"
    /\ Begun < max
    /\ \E e \in edits :
          \E req \in {Request("edit", e.in.method, e.noteID, e.in.content, e.in.kwInput,
                              e.in.apiKey, NoReply)} :
             IF e.noteID = MissingId
             THEN Answer(h, req, 400) /\ UNCHANGED notes
             ELSE IF e.in.method = "GET"
             THEN Answer(h, req, IF e.noteID \in DOMAIN notes THEN 200 ELSE 404)
                  /\ UNCHANGED notes
             ELSE IF ~IsPost(e.in.method)
             THEN Answer(h, req, 405) /\ UNCHANGED notes
             ELSE IF EmptyContent(e.in.content)
             THEN Answer(h, req, 400) /\ UNCHANGED notes
             ELSE /\ notes' = UpdateNote(notes, e.noteID, e.in.content)
                  /\ inflight' = [inflight EXCEPT ![h] =
                                     [req |-> [req EXCEPT !.wrote = TRUE],
                                      pc |-> "clear", names |-> <<>>]]
                  /\ UNCHANGED <<served, last>>
    /\ UNCHANGED <<datesVars, now, clock, keywords, note_keywords>>

EditBegin(h) == EditFrom(h, StepEdits, MaxStepRequests)

\* editNoteHandler: DELETE FROM note_keywords WHERE note_id = ?
ClearLinks(h) ==
    /\ inflight[h].pc = "clear"
    /\ \E db \in {ClearKeywords([keywords |-> keywords, note_keywords |-> note_keywords],
                                 inflight[h].req.id)} :
          /\ keywords' = db.keywords
          /\ note_keywords' = db.note_keywords
    /\ inflight' = [inflight EXCEPT ![h].pc = "assign"]
    /\ UNCHANGED <<datesVars, now, clock, notes, served, last>>

\* if kwInput := r.FormValue("keywords"); kwInput != "" ... else ...: the
\* explicit names, or extractKeywords up to the return for a missing
\* credential or to client.Do, which issues the remote request.
AssignBegin(h) ==
    /\ inflight[h].pc = "assign"
    /\ \E req \in {inflight[h].req} :
          inflight' = [inflight EXCEPT ![h] =
             IF req.kwInput # <<>>
             THEN [req |-> req, pc |-> "link", names |-> ExplicitNames(req.kwInput)]
             ELSE IF req.apiKey = ""
             THEN [req |-> [req EXCEPT !.extractErr = TRUE], pc |-> "respond", names |-> <<>>]
             ELSE [req |-> [req EXCEPT !.remoteCalls = req.remoteCalls + 1],
                   pc |-> "call", names |-> <<>>]]
    /\ UNCHANGED <<datesVars, now, clock, notes, keywords, note_keywords, served, last>>

\* The statement that follows the return of extractKeywords with result r.
AfterReplyRetry(r) == IF r.err THEN "assign" ELSE "link"

AfterReply(r) == IF r.err THEN "respond" ELSE "link"

\* client.Do returns with the reply (or fails), extractKeywords returns.
RemoteReply(h) ==
    /\ inflight[h].pc = "call"
    /\ \E reply \in StepReplies, order \in RangeOrders(ToLower(inflight[h].req.content)) :
          \E r \in {extractKeywords(inflight[h].req.content, inflight[h].req.apiKey,
                                    reply, now, order)} :
             inflight' = [inflight EXCEPT ![h] =
                             [req |-> [inflight[h].req EXCEPT !.reply = reply,
                                                              !.extractErr = r.err,
                                                              !.autoKeys = r.keywords],
                              pc |-> AfterReply(r),
                              names |-> r.keywords]]
    /\ UNCHANGED <<datesVars, now, clock, notes, keywords, note_keywords, served, last>>

\* client := &http.Client{Timeout: 10 * time.Second}: the seconds after
\* which client.Do gives up; a Timeout of zero means no timeout.
ClientTimeout == 10

TimesOutNever(timeout) == FALSE

TimesOut(timeout) == timeout > 0

\* The outcome of a client.Do that the timeout ended.
TimedOut == [err |-> TRUE, status |-> 0, bodyOk |-> FALSE, choices |-> <<>>]

\* The remote service has not answered in time: client.Do returns the
\* timeout as an error, extractKeywords returns it.
RemoteTimeout(h) ==
    /\ inflight[h].pc = "call"
    /\ TimesOut(ClientTimeout)
    /\ \E r \in {extractKeywords(inflight[h].req.content, inflight[h].req.apiKey,
                                  TimedOut, now, <<>>)} :
          inflight' = [inflight EXCEPT ![h] =
                          [req |-> [inflight[h].req EXCEPT !.reply = TimedOut,
                                                           !.extractErr = r.err,
                                                           !.autoKeys = r.keywords],
                           pc |-> AfterReply(r),
                           names |-> r.keywords]]
    /\ UNCHANGED <<datesVars, now, clock, notes, keywords, note_keywords, served, last>>

\* One round of the loop over the names, or its end.
LinkNext(h) ==
    /\ inflight[h].pc = "link"
    /\ IF inflight[h].names = <<>>
       THEN /\ inflight' = [inflight EXCEPT ![h].pc = "respond"]
            /\ UNCHANGED <<keywords, note_keywords>>
       ELSE \E db \in {LinkKeyword([keywords |-> keywords, note_keywords |-> note_keywords],
                                    inflight[h].req.id, Head(inflight[h].names))} :
               /\ keywords' = db.keywords
               /\ note_keywords' = db.note_keywords
               /\ inflight' = [inflight EXCEPT ![h].names = Tail(inflight[h].names)]
    /\ UNCHANGED <<datesVars, now, clock, notes, served, last>>

\* http.Redirect
Respond(h) ==
    /\ inflight[h].pc = "respond"
    /\ Answer(h, inflight[h].req, PostStatus(inflight[h].req))
    /\ UNCHANGED <<datesVars, now, clock, notes, keywords, note_keywords>>

StepsNext ==
    \/ Tick
    \/ \E h \in Handlers :
          \/ CreateBegin(h)
          \/ EditBegin(h)
          \/ ClearLinks(h)
          \/ AssignBegin(h)
          \/ RemoteReply(h)
          \/ RemoteTimeout(h)
          \/ LinkNext(h)
          \/ Respond(h)

SpecSteps == Init /\ [][StepsNext]_vars

\* The handler of a request runs on: a goroutine that can take its next
\* statement takes it, every statement on the store returns, and client.Do
\* returns by its timeout at the latest.  Nothing obliges a client to send a
\* request or the remote service to answer.
StepsFairness ==
    \A h \in Handlers :
        /\ WF_vars(ClearLinks(h))
        /\ WF_vars(AssignBegin(h))
        /\ WF_vars(RemoteTimeout(h))
        /\ WF_vars(LinkNext(h))
        /\ WF_vars(Respond(h))

\* The requests of the specification with fairness: a POST without an
\* explicit list, with and without the credential, and one with a list.
FairInputs ==
    {Input("POST", StepContents.dated, <<>>, "sk", NoReply, <<>>),
     Input("POST", StepContents.plain, <<>>, "", NoReply, <<>>),
     Input("POST", StepContents.plain, <<"J", "o", "b", "b">>, "", NoReply, <<>>)}

FairEdits == {[noteID |-> n, in |-> in] : n \in DOMAIN notes, in \in FairInputs}

FairNext ==
    \/ Tick
    \/ \E h \in Handlers :
          \/ CreateFrom(h, FairInputs, MaxStepRequests)
          \/ EditFrom(h, FairEdits, MaxStepRequests)
          \/ ClearLinks(h)
          \/ AssignBegin(h)
          \/ RemoteReply(h)
          \/ RemoteTimeout(h)
          \/ LinkNext(h)
          \/ Respond(h)

FairSteps == Init /\ [][FairNext]_vars /\ StepsFairness

-----------------------------------------------------------------------------
(* Specification of requests served concurrently: net/http runs every      *)
(* handler in a goroutine of its own, the handlers share the database and  *)
(* run their statements outside of any transaction.  Two goroutines take   *)
(* the statements of their handlers in any order; one round of the loop    *)
(* over the names is three statements.                                     *)

Racers == {"h1", "h2"}

RaceContents ==
    [created |-> <<"n", "y">>, first |-> <<"e", "n">>, second |-> <<"t", "o">>]

RaceCreates ==
    {Input("POST", RaceContents.created, <<"j", "o", "b", "b">>, "", NoReply, <<>>)}

RaceEditInputs ==
    {Input("POST", RaceContents.first, <<"g", "a", "v", "e", "r">>, "", NoReply, <<>>),
     Input("POST", RaceContents.second, <<"j", "o", "b", "b">>, "", NoReply, <<>>)}

RaceEdits == {[noteID |-> n, in |-> in] : n \in DOMAIN notes, in \in RaceEditInputs}

RaceInit ==
    /\ words = <<>>
    /\ text = <<>>
    /\ now \in HandlerDates
    /\ pc = "serving"
    /\ dates = <<>>
    /\ suggested = <<>>
    /\ merged = <<>>
    /\ notes = << >>
    /\ keywords = {}
    /\ note_keywords = << >>
    /\ clock = 1
    /\ served = 0
    /\ last = NoRequest
    /\ inflight = [h \in Racers |-> NoStep]

\* INSERT OR IGNORE INTO keywords(name) VALUES(?)
InsertName(h) ==
    /\ inflight[h].pc = "link"
    /\ inflight[h].names # <<>>
    /\ keywords' = InsertKeyword(keywords, Head(inflight[h].names))
    /\ inflight' = [inflight EXCEPT ![h].pc = "lookup"]
    /\ UNCHANGED <<datesVars, now, clock, notes, note_keywords, served, last>>

\* SELECT id FROM keywords WHERE name = ?, scanned into kid
LookupName(h) ==
    /\ inflight[h].pc = "lookup"
    /\ inflight' = [inflight EXCEPT ![h] =
                       [req |-> inflight[h].req, pc |-> "linkrow",
                        names |-> inflight[h].names,
                        kid |-> KeywordId(keywords, Head(inflight[h].names))]]
    /\ UNCHANGED <<datesVars, now, clock, notes, keywords, note_keywords, served, last>>

\* INSERT OR IGNORE INTO note_keywords(note_id, keyword_id) VALUES(?, ?)
LinkName(h) ==
    /\ inflight[h].pc = "linkrow"
    /\ note_keywords' = InsertLink(note_keywords, inflight[h].req.id, inflight[h].kid)
    /\ inflight' = [inflight EXCEPT ![h] =
                       [req |-> inflight[h].req, pc |-> "link",
                        names |-> Tail(inflight[h].names)]]
    /\ UNCHANGED <<datesVars, now, clock, notes, keywords, served, last>>

\* The loop over the names has ended.
LinkDone(h) ==
    /\ inflight[h].pc = "link"
    /\ inflight[h].names = <<>>
    /\ inflight' = [inflight EXCEPT ![h].pc = "respond"]
    /\ UNCHANGED <<datesVars, now, clock, notes, keywords, note_keywords, served, last>>

RaceNext ==
    \/ Tick
    \/ \E h \in Racers :
          \/ CreateFrom(h, RaceCreates, MaxRaceRequests)
          \/ EditFrom(h, RaceEdits, MaxRaceRequests)
          \/ ClearLinks(h)
          \/ AssignBegin(h)
          \/ InsertName(h)
          \/ LookupName(h)
          \/ LinkName(h)
          \/ LinkDone(h)
          \/ Respond(h)

SpecRace == RaceInit /\ [][RaceNext]_vars

\* Concurrent edits only: the store holds the note that a create request
\* with the list "jobb" has stored at time 1, and every request is an edit
\* of it.
EditRaceInit ==
    /\ words = <<>>
    /\ text = <<>>
    /\ now \in HandlerDates
    /\ pc = "serving"
    /\ dates = <<>>
    /\ suggested = <<>>
    /\ merged = <<>>
    /\ notes = InsertNote(<< >>, 1, RaceContents.created, 1)
    /\ \E db \in {LinkKeywords([keywords |-> {}, note_keywords |-> << >>], 1, <<"jobb">>)} :
          keywords = db.keywords /\ note_keywords = db.note_keywords
    /\ clock = 1
    /\ served = 0
    /\ last = NoRequest
    /\ inflight = [h \in Racers |-> NoStep]

EditRaceNext ==
    \/ Tick
    \/ \E h \in Racers :
          \/ EditFrom(h, RaceEdits, MaxRaceRequests)
          \/ ClearLinks(h)
          \/ AssignBegin(h)
          \/ InsertName(h)
          \/ LookupName(h)
          \/ LinkName(h)
          \/ LinkDone(h)
          \/ Respond(h)

SpecEditRace == EditRaceInit /\ [][EditRaceNext]_vars

-----------------------------------------------------------------------------
(* Properties of the request handlers (specification Spec).                *)

LeapDay == [y |-> 2024, m |-> 2, d |-> 29]

\* The note noteID is linked to a keyword of the given name.
Tagged(noteID, name) ==
    \E k \in keywords : k.name = name /\ <<noteID, k.id>> \in Range(note_keywords)

\* The last request was a create or edit POST with content and without an
\* explicit keyword list.
AutoRequest ==
    /\ last.op \in {"create", "edit"}
    /\ last.method = "POST"
    /\ last.content # <<>>
    /\ last.kwInput = <<>>

\* C1: after a create or edit request with non-empty content and no explicit
\* keyword list whose remote suggestion call failed (transport error or
\* timeout, non-200 status, unparseable reply), the note is linked to every
\* date keyword that the recognizer returns for its content.
C1_DatesKeptOnRemoteFailure ==
    (AutoRequest /\ last.wrote /\ last.apiKey # "" /\ last.reply \in FailedReplies)
    => \A order \in RangeOrders(ToLower(last.content)) :
          \A d \in Range(extractDateKeywords(last.content, now, order)) :
             Tagged(last.id, d)

\* C2: a failure of the suggestion path (missing credential, transport error,
\* timeout, non-200 status, empty choices, unparseable reply) does not abort
\* the request: the note row written before it keeps the content of the
\* request and the response is the redirect.
C2_FailureNeverAborts ==
    (AutoRequest /\ last.extractErr)
    => /\ last.status = 302
       /\ last.wrote
       /\ last.op = "create" => last.id \in DOMAIN notes
       /\ last.id \in DOMAIN notes => notes[last.id].content = last.content

C2_Witness ==
    /\ AutoRequest
    /\ last.op = "edit"
    /\ last.extractErr
    /\ last.reply.status = 500
    /\ last.id \in DOMAIN notes
    /\ last.status = 302
    /\ notes[last.id].content = last.content

-----------------------------------------------------------------------------
(* Properties of the merge (specification SpecMerge).                      *)

NoDuplicates(seq) == \A i, j \in 1..Len(seq) : seq[i] = seq[j] => i = j

\* C3: every date string that extractDateKeywords finds in the text is, by
\* exact string equality, in the list that extractKeywords returns for a
\* successful reply, whatever list the reply suggested.
C3_MergeKeepsEveryDate ==
    pc \in {"merged", "remerged"}
    => \A i \in 1..Len(dates) : \E j \in 1..Len(merged) : merged[j] = dates[i]

C3_Witness ==
    /\ pc = "merged"
    /\ words = <<TokYesterday, TokToday>>
    /\ now = LeapDay
    /\ suggested = <<"2024-02-29", "handle">>
    /\ merged = <<"2024-02-29", "handle", "2024-02-28">>

\* C4: the merge is idempotent: a suggested list without duplicates that
\* holds every date of the text is returned unchanged, and merging the
\* result of a merge again with the same text returns it unchanged.
C4_MergeIdempotent ==
    /\ (pc = "merged" /\ NoDuplicates(suggested) /\ Range(dates) \subseteq Range(suggested))
       => merged = suggested
    /\ pc = "remerged" => merged = suggested

C4_Witness ==
    /\ pc = "remerged"
    /\ words = <<TokDmyShort, TokToday>>
    /\ now = LeapDay
    /\ suggested = <<"gaver", "2024-02-29", "2024-03-01">>
    /\ merged = suggested

-----------------------------------------------------------------------------
(* Properties of the recognizer (specification SpecDates).                 *)

Occurrences(seq, x) == Cardinality({i \in 1..Len(seq) : seq[i] = x})

\* C5: the sequence that one call of extractDateKeywords returns holds no
\* string twice, also when several rules produce the same date or a date is
\* written several times.
C5_NoDuplicateDates == pc = "recognized" => NoDuplicates(dates)

C5_Witness ==
    /\ pc = "recognized"
    /\ words = <<TokToday, TokIso>>
    /\ now = LeapDay
    /\ dates = <<"2024-02-29">>

\* C6: when the lower-cased text contains "i dag", the output holds the
\* current date exactly once, however often the phrase occurs.
C6_TodayExactlyOnce ==
    (pc = "recognized" /\ Contains(ToLower(text), PhraseToday))
    => Occurrences(dates, Format(now)) = 1

C6_Witness ==
    /\ pc = "recognized"
    /\ words = <<TokToday, TokToday>>
    /\ dates = <<Format(now)>>

\* The date of weekday w on or after the current date, from the calendar:
\* the first of the seven days from today on that falls on w.
NextOccurrence(w) ==
    AddDate(now, CHOOSE k \in 0..6 :
                    Weekday(AddDate(now, k)) = w
                    /\ \A j \in 0..(k - 1) : Weekday(AddDate(now, j)) # w)

\* The text has no trigger other than weekday names.
OnlyWeekdayNames ==
    /\ RelativeDates(ToLower(text), now) = <<>>
    /\ \A i \in 1..Len(text) : ~IsDigit(text[i])

\* C7: for current weekday c and every weekday name w in the text the output
\* holds the current date plus (w - c + 7) mod 7 days: a date that falls on
\* w, 0 to 6 days ahead, and today itself when today is w.
C7_WeekdayOffset ==
    pc = "recognized"
    => /\ \A i \in MatchedWeekdays(ToLower(text)) :
             /\ (weekdays[i].wd - Weekday(now) + 7) % 7 \in 0..6
             /\ AddDate(now, (weekdays[i].wd - Weekday(now) + 7) % 7)
                   = NextOccurrence(weekdays[i].wd)
             /\ Occurrences(dates, Format(NextOccurrence(weekdays[i].wd))) = 1
             /\ weekdays[i].wd = Weekday(now)
                   => Occurrences(dates, Format(now)) = 1
       /\ OnlyWeekdayNames
             => Range(dates) = {Format(NextOccurrence(weekdays[i].wd)) :
                                   i \in MatchedWeekdays(ToLower(text))}

C7_Witness ==
    /\ pc = "recognized"
    /\ now = LeapDay
    /\ words = << <<"t", "o", "r", "s", "d", "a", "g">>, <<"o", "n", "s", "d", "a", "g">> >>
    /\ Range(dates) = {"2024-02-29", "2024-03-06"}

\* The text has no trigger other than the phrase "i går".
OnlyYesterday ==
    /\ Contains(ToLower(text), PhraseYesterday)
    /\ ~Contains(ToLower(text), PhraseToday)
    /\ ~Contains(ToLower(text), PhraseTomorrow)
    /\ MatchedWeekdays(ToLower(text)) = {}
    /\ \A i \in 1..Len(text) : ~IsDigit(text[i])

\* C8: the three relative phrases are matched independently and without
\* regard to case: "i går" alone yields exactly the day before the current
\* date, and every phrase in the text yields its own date (today, the day
\* before, the day after), none suppressed by another.
C8_RelativePhrases ==
    pc = "recognized"
    => /\ OnlyYesterday => dates = <<Format(AddDate(now, 0 - 1))>>
       /\ Contains(ToLower(text), PhraseToday) => Occurrences(dates, Format(now)) = 1
       /\ Contains(ToLower(text), PhraseYesterday)
             => Occurrences(dates, Format(AddDate(now, 0 - 1))) = 1
       /\ Contains(ToLower(text), PhraseTomorrow)
             => Occurrences(dates, Format(AddDate(now, 1))) = 1

C8_Witness ==
    /\ pc = "recognized"
    /\ words = <<TokTomorrow, TokYesterday>>
    /\ now = [y |-> 2024, m |-> 3, d |-> 1]
    /\ dates = <<"2024-02-29", "2024-03-02">>

\* The text with the separators "." and "/" exchanged.
SwapSeparators(s) ==
    [i \in 1..Len(s) |-> IF s[i] = "." THEN "/" ELSE IF s[i] = "/" THEN "." ELSE s[i]] \o <<>>

RECURSIVE Without(_, _)
Without(ws, drop) ==
    IF ws = <<>> THEN <<>>
    ELSE (IF Head(ws) \in drop THEN <<>> ELSE <<Head(ws)>>) \o Without(Tail(ws), drop)

\* C10: a day-month-year match that is no calendar date (day 31 of a 30-day
\* month, 29 February of a common year, month 13, day 0) adds no string to
\* the output and takes none away: the output is that of the text without
\* these words.
C10_InvalidDmyDropped ==
    pc = "recognized"
    => /\ Range(dates) \cap {"2024-04-31", "2025-02-29", "2024-13-01", "2024-03-00"} = {}
       /\ \E order \in RangeOrders(ToLower(text)) :
             dates = extractDateKeywords(Join(Without(words, InvalidDmyTokens)), now, order)

C10_Witness ==
    /\ pc = "recognized"
    /\ words = <<TokDmyDay31, TokDmy>>
    /\ dates = <<"2024-02-29">>

-----------------------------------------------------------------------------
(* Properties of the ISO rule (specification SpecIso).                     *)

\* The ten characters of s from position i on have the shape four digits,
\* "-", two digits, "-", two digits.
IsoShape(s, i) ==
    /\ i + 9 <= Len(s)
    /\ \A k \in 0..9 : IF k \in {4, 7} THEN s[i + k] = "-" ELSE IsDigit(s[i + k])

\* No ASCII letter, digit or underscore stands directly before position i
\* or directly after position j of s.
FreeStanding(s, i, j) ==
    /\ i > 1 => s[i - 1] \notin WordChars
    /\ j < Len(s) => s[j + 1] \notin WordChars

\* C11 as stated: every substring of the shape four digits, "-", two digits,
\* "-", two digits is emitted verbatim, whatever precedes or follows it.
C11_EveryIsoShapeEmitted ==
    pc = "recognized"
    => \A i \in 1..Len(text) :
          IsoShape(text, i) => Occurrences(dates, Str(SubSeq(text, i, i + 9))) = 1

\* C11 amended: every substring of that shape that no ASCII letter, digit or
\* underscore directly precedes or follows is emitted verbatim, a real date
\* or not; the other substrings of that shape emit nothing.
C11_FreeStandingIsoEmitted ==
    pc = "recognized"
    => /\ \A i \in 1..Len(text) :
             (IsoShape(text, i) /\ FreeStanding(text, i, i + 9))
             => Occurrences(dates, Str(SubSeq(text, i, i + 9))) = 1
       /\ Range(dates) = {Str(SubSeq(text, i, i + 9)) :
                             i \in {j \in 1..Len(text) :
                                       IsoShape(text, j) /\ FreeStanding(text, j, j + 9)}}

C11_Witness ==
    /\ pc = "recognized"
    /\ words = <<TokIsoNoDate, TokIsoAfterNonAscii>>
    /\ dates = <<"2024-13-45", "2024-03-04">>

-----------------------------------------------------------------------------
(* Properties of the order of the output (specification SpecOrder).        *)

\* The places at which the rules produce the date d, as numbers that grow
\* in rule order: 1, 2, 3 for the phrases today, yesterday, tomorrow, 4 for
\* a weekday name, 1000 + i for an ISO match at position i of the text and
\* 2000 + i for a day-month-year match at position i.
RulePlaces(d) ==
    {k \in 1..3 :
        /\ Contains(ToLower(text), <<PhraseToday, PhraseYesterday, PhraseTomorrow>>[k])
        /\ d = Format(AddDate(now, <<0, 0 - 1, 1>>[k]))}
    \cup {4 : i \in {j \in MatchedWeekdays(ToLower(text)) :
                        d = Format(NextOccurrence(weekdays[j].wd))}}
    \cup {1000 + i : i \in {j \in 1..Len(text) :
                               /\ IsoShape(text, j)
                               /\ FreeStanding(text, j, j + 9)
                               /\ d = Str(SubSeq(text, j, j + 9))}}
    \cup {2000 + i : i \in {j \in 1..Len(text) :
                               /\ DmyMatchLen(text, j) > 0
                               /\ <<d>> = DmyDate(SubSeq(text, j, j + DmyMatchLen(text, j) - 1))}}

Least(S) == CHOOSE p \in S : \A q \in S : p <= q

FirstPlace(d) == Least(RulePlaces(d))

\* The places, one per string of the output, are in rule order: they grow,
\* except that the weekday dates have one place.
InRuleOrder(places) ==
    \A j, k \in 1..Len(places) :
        j < k => places[j] < places[k] \/ (places[j] = 4 /\ places[k] = 4)

\* The strings a rule can produce for the text: the days from yesterday to
\* six days ahead, the substrings of the ISO shape, and the dates of the
\* day-month-year matches.
RuleCandidates ==
    {Format(AddDate(now, k)) : k \in (0 - 1)..6}
    \cup {Str(SubSeq(text, j, j + 9)) : j \in {i \in 1..Len(text) : IsoShape(text, i)}}
    \cup UNION {Range(DmyDate(SubSeq(text, j, j + DmyMatchLen(text, j) - 1))) :
                   j \in {i \in 1..Len(text) : DmyMatchLen(text, i) > 0}}

C13_SameSequenceEveryCall ==
    [][(pc = "recognized" /\ pc' = "recognized") => dates' = dates]_vars

-----------------------------------------------------------------------------
(* Properties of single requests (specification Spec).                     *)

\* C14: a create or edit POST with empty content is answered 400 and does
\* nothing else: no note row is inserted or updated, no keyword or
\* association is added or deleted, no remote request is issued.
C14_EmptyContentRejected ==
    [][(served' = served + 1 /\ last'.method = "POST" /\ last'.content = <<>>)
        => /\ last'.status = 400
           /\ ~last'.wrote
           /\ last'.remoteCalls = 0
           /\ UNCHANGED <<notes, keywords, note_keywords>>]_vars

C14_Witness ==
    /\ last.op = "edit"
    /\ last.method = "POST"
    /\ last.content = <<>>
    /\ last.kwInput # <<>>
    /\ last.status = 400
    /\ last.id \in DOMAIN notes
    /\ Tagged(last.id, "2024-02-29")

\* The names of the keywords linked to a note.
KeywordsOf(noteID) ==
    {k.name : k \in {r \in keywords : <<noteID, r.id>> \in Range(note_keywords)}}

\* The comma-separated entries of a keywords field, trimmed, the empty ones
\* left out.
Entries(kwInput) == {Str(TrimSpace(e)) : e \in Range(Split(kwInput))} \ {""}

\* C15: a create or edit POST with a non-empty keywords field issues no
\* remote request and does not run the recognizer; once it is served the
\* keywords of the note are exactly the trimmed non-empty entries of the
\* field.
C15_ExplicitListWins ==
    (last.op \in {"create", "edit"} /\ last.method = "POST" /\ last.kwInput # <<>>)
    => /\ last.remoteCalls = 0
       /\ last.autoKeys = <<>>
       /\ ~last.extractErr
       /\ last.wrote => KeywordsOf(last.id) = Entries(last.kwInput)

C15_Witness ==
    /\ last.op = "edit"
    /\ last.status = 302
    /\ last.content = <<"i", " ", "G", "Å", "R", " ", "1", "/", "3", ".", "2", "0", "2", "4", " ", "t", "o", "r", "s", "d", "a", "g">>
    /\ last.kwInput = <<" ", "j", "o", "b", "b", ",", ",", "j", "o", "b", "b", " ", ",", " ">>
    /\ last.id \in DOMAIN notes
    /\ KeywordsOf(last.id) = {"jobb"}
    /\ \E k \in keywords : k.name = "2024-02-28"

-----------------------------------------------------------------------------
(* Properties of sequences of requests (specification SpecSteps).          *)

\* C16: whatever requests were served (explicit lists or replies that
\* repeat an entry, repeated edits of a note), the table note_keywords
\* holds no (note, keyword) pair twice.
C16_NoDuplicateLinks == NoDuplicates(note_keywords)

C16_Witness ==
    /\ last.op = "edit"
    /\ last.status = 302
    /\ last.kwInput = <<"j", "o", "b", "b", ",", " ", "j", "o", "b", "b">>
    /\ served = 3
    /\ Len(SelectSeq(note_keywords, LAMBDA nk : nk[1] = last.id)) = 1

\* C17: keyword names are pairwise distinct under exact comparison.  Linking
\* a name that exists reuses its row, a name that differs from the stored
\* ones, if only in letter case, gets a row of its own, and the link goes to
\* the note of the request and to no other.
C17_KeywordNamesDistinct ==
    [][/\ \A k1, k2 \in keywords' : (k1.name = k2.name \/ k1.id = k2.id) => k1 = k2
       /\ \A h \in Handlers :
             (inflight[h].pc = "link" /\ inflight[h].names # <<>> /\ inflight'[h] # inflight[h])
             => /\ (\E k \in keywords : k.name = Head(inflight[h].names))
                      => keywords' = keywords
                /\ (~\E k \in keywords : k.name = Head(inflight[h].names))
                      => Cardinality(keywords') = Cardinality(keywords) + 1
                /\ KeywordsOf(inflight[h].req.id)'
                      = KeywordsOf(inflight[h].req.id) \cup {Head(inflight[h].names)}
                /\ \A n \in DOMAIN notes \ {inflight[h].req.id} :
                      KeywordsOf(n)' = KeywordsOf(n)]_vars

C17_Witness ==
    /\ \E k1, k2 \in keywords : k1.name = "jobb" /\ k2.name = "Jobb" /\ k1.id # k2.id
    /\ \E n1, n2 \in DOMAIN notes : KeywordsOf(n1) = {"jobb"} /\ KeywordsOf(n2) = {"Jobb"}

\* C18: a keyword name that is in the store stays in the store, also when an
\* edit removes the last link to it.
C18_KeywordsOnlyGrow ==
    [][\A k \in keywords : \E k2 \in keywords' : k2.name = k.name /\ k2.id = k.id]_vars

C18_Witness ==
    /\ last.op = "edit"
    /\ last.status = 302
    /\ \E k \in keywords : \A i \in 1..Len(note_keywords) : note_keywords[i][2] # k.id

\* C19: a stored note id stays stored with its creation time; the content
\* of a note changes only by the update of an edit POST for that id, to the
\* content of that request, and no other row changes with it; a create adds
\* a row and changes none.
C19_NotesKeptOnlyContentEdited ==
    [][\A n \in DOMAIN notes :
          /\ n \in DOMAIN notes'
          /\ notes'[n].created_at = notes[n].created_at
          /\ notes'[n].content # notes[n].content
                => \E h \in Handlers :
                      /\ inflight[h].pc = "idle"
                      /\ inflight'[h].pc = "clear"
                      /\ inflight'[h].req.op = "edit"
                      /\ inflight'[h].req.method = "POST"
                      /\ inflight'[h].req.id = n
                      /\ notes'[n].content = inflight'[h].req.content]_vars

C19_Witness ==
    /\ last.op = "edit"
    /\ last.status = 302
    /\ last.content = StepContents.dated
    /\ \E n \in DOMAIN notes \ {last.id} :
          /\ notes[n].content = StepContents.plain
          /\ notes[n].created_at # notes[last.id].created_at
    /\ notes[last.id].content = StepContents.dated

\* A step issues a remote request only after the note write of its request,
\* and a request issues one at most; once the names are being linked no
\* remote request follows.
CallAfterWrite(h) ==
    /\ inflight'[h].req.remoteCalls <= 1
    /\ (inflight'[h].pc = "call" /\ inflight[h].pc # "call")
          => /\ inflight[h].req.wrote
             /\ inflight[h].req.remoteCalls = 0
             /\ inflight[h].req.op = "create" => inflight[h].req.id \in DOMAIN notes
             /\ inflight[h].req.id \in DOMAIN notes
                   => notes[inflight[h].req.id].content = inflight[h].req.content
    /\ inflight[h].pc \in {"link", "respond"}
          => inflight'[h].pc \in {"link", "respond", "idle"}
    /\ last'.remoteCalls <= 1

\* C20 as stated, for a request that issues a remote request (no explicit
\* list, credential set): the note write comes first, then at most one
\* remote request, then the writes to the keyword associations; a failed
\* remote request is not retried.
C20_WriteCallThenLinks ==
    [][\A h \in Handlers :
          /\ CallAfterWrite(h)
          /\ (/\ note_keywords' # note_keywords
              /\ inflight[h].req.kwInput = <<>>
              /\ inflight[h].req.apiKey # "")
                => inflight[h].pc = "link" /\ inflight[h].req.remoteCalls = 1]_vars

\* C20 amended: the note write comes first; on edit the links of the note
\* are deleted next, before any remote request; then at most one remote
\* request; then the links are inserted; a failed remote request is not
\* retried.
C20_WriteClearCallThenLinks ==
    [][\A h \in Handlers :
          /\ CallAfterWrite(h)
          /\ note_keywords' # note_keywords
                => \/ /\ inflight[h].pc = "link"
                      /\ \E row \in {inflight[h].req.id} \X {k.id : k \in keywords'} :
                            note_keywords' = Append(note_keywords, row)
                   \/ /\ inflight[h].pc = "clear"
                      /\ inflight[h].req.op = "edit"
                      /\ inflight[h].req.wrote
                      /\ inflight[h].req.remoteCalls = 0
                      /\ note_keywords' = SelectSeq(note_keywords,
                                              LAMBDA nk : nk[1] # inflight[h].req.id)]_vars

C20_Witness ==
    /\ last.op = "edit"
    /\ last.status = 302
    /\ last.remoteCalls = 1
    /\ ~last.extractErr
    /\ served = 3
    /\ KeywordsOf(last.id) = {"gaver", "jobb", "2024-02-28", "2024-03-01", "2024-02-29"}

-----------------------------------------------------------------------------
(* Properties of the reply handling and of the edit (specifications Spec   *)
(* and SpecMerge).                                                         *)

\* The first message content of the last request's reply is a JSON object
\* without the field "keywords", in a reply with status 200.
ReplyLacksKeywords ==
    /\ ~last.reply.err
    /\ last.reply.status = 200
    /\ last.reply.bodyOk
    /\ Len(last.reply.choices) >= 1
    /\ last.reply.choices[1].jsonOk
    /\ ~last.reply.choices[1].hasKeywords

\* C22: a reply with status 200 whose message content is a JSON object
\* without the field "keywords" is an extraction failure: extractKeywords
\* reports an error and yields no keyword list.
C22_MissingFieldIsFailure ==
    (AutoRequest /\ last.wrote /\ last.apiKey # "" /\ ReplyLacksKeywords)
    => last.extractErr /\ last.autoKeys = <<>>

\* The dates of ds that the list S does not hold, in the order of ds.
DatesNotIn(ds, S) == SelectSeq(ds, LAMBDA d : \A i \in 1..Len(S) : S[i] # d)

\* C23: for a successful reply extractKeywords returns the suggested list as
\* it is (nothing removed, moved or deduplicated), followed by the
\* recognizer's dates that the suggested list does not hold, each once, in
\* the order of the recognizer's output.
C23_SuggestedThenNewDates ==
    pc = "merged"
    => /\ SubSeq(merged, 1, Len(suggested)) = suggested
       /\ NoDuplicates(SubSeq(merged, Len(suggested) + 1, Len(merged)))
       /\ \E order \in RangeOrders(ToLower(text)) :
             merged = suggested \o DatesNotIn(extractDateKeywords(text, now, order), suggested)

C23_Witness ==
    /\ pc = "merged"
    /\ words = <<TokYesterday, TokToday>>
    /\ now = LeapDay
    /\ suggested = <<"gaver", "gaver">>
    /\ merged = <<"gaver", "gaver", "2024-02-29", "2024-02-28">>

\* The keyword names that a served POST request computed: the entries of
\* the explicit list, or the list that extractKeywords returned, none when
\* it failed.
Computed(req) ==
    IF req.kwInput # <<>> THEN Entries(req.kwInput)
    ELSE IF req.extractErr THEN {}
    ELSE Range(req.autoKeys)

\* The names of the keywords kws that the rows links give to noteID.
NamesLinked(kws, links, noteID) ==
    {k.name : k \in {r \in kws : <<noteID, r.id>> \in Range(links)}}

\* The rows of note_keywords of the notes other than noteID.
LinksOfOthers(links, noteID) == SelectSeq(links, LAMBDA nk : nk[1] # noteID)

\* C24: an edit POST with non-empty content replaces the keywords of the
\* note: afterwards the note is linked to exactly the keywords computed in
\* this request, an earlier link survives only when it is computed again,
\* and the links of the other notes are as they were.
C24_EditReplacesKeywords ==
    [][(served' = served + 1 /\ last'.op = "edit" /\ last'.method = "POST" /\ last'.wrote)
        => /\ NamesLinked(keywords', note_keywords', last'.id) = Computed(last')
           /\ LinksOfOthers(note_keywords', last'.id) = LinksOfOthers(note_keywords, last'.id)]_vars

C24_Witness ==
    /\ last.op = "edit"
    /\ last.status = 302
    /\ last.kwInput = <<>>
    /\ last.autoKeys = <<"2024-02-29", "handle">>
    /\ last.id \in DOMAIN notes
    /\ KeywordsOf(last.id) = {"2024-02-29", "handle"}
    /\ \E k \in keywords : k.name = "Jobb"

\* C25: every row of note_keywords refers to a row of notes and to a row of
\* keywords, also after an edit POST for an id that no note has.
C25_LinksReferToStoredRows ==
    \A i \in 1..Len(note_keywords) :
        /\ note_keywords[i][1] \in DOMAIN notes
        /\ \E k \in keywords : k.id = note_keywords[i][2]

\* C30: no keyword has the empty name, whether the names come from an
\* explicit list or from the reply of the remote service.
C30_NoEmptyKeywordName == \A k \in keywords : k.name # ""

-----------------------------------------------------------------------------
(* Properties of the routes that read (specification SpecReads).           *)

\* The request is served by a route that reads, or is rejected for its
\* method.
ReadOnly(req) ==
    \/ req.op \in {"list", "view", "keywords", "bykeyword"}
    \/ req.op \in {"create", "edit"} /\ req.method # "POST"

\* C29: listing the notes, viewing a note (404 when there is none), listing
\* the keywords, listing the notes of a keyword, the edit form, a request to
\* the create route that is no POST (405) and a request to the edit route
\* that is neither GET nor POST (405) leave notes, keywords and associations
\* as they are and issue no remote request.
C29_ReadsLeaveStore ==
    [][(served' = served + 1 /\ ReadOnly(last'))
        => /\ UNCHANGED <<notes, keywords, note_keywords>>
           /\ last'.remoteCalls = 0
           /\ ~last'.wrote
           /\ (last'.op = "view" /\ last'.id \notin DOMAIN notes \cup {MissingId})
                 => last'.status = 404
           /\ last'.op = "create" => last'.status = 405
           /\ (last'.op = "edit" /\ last'.method # "GET" /\ last'.id # MissingId)
                 => last'.status = 405]_vars

C29_Witness ==
    /\ last.op = "edit"
    /\ last.method = "PUT"
    /\ last.content = ReadContent
    /\ last.apiKey = "sk"
    /\ last.status = 405
    /\ last.id \in DOMAIN notes
    /\ KeywordsOf(last.id) = {"jobb", "Jobb"}

-----------------------------------------------------------------------------
(* Termination of the requests (specification FairSteps).                  *)

\* C21: every create or edit request that a handler has begun to serve is
\* answered, also when the remote service never answers: client.Do ends by
\* its timeout, the handler takes the timeout as a failure of the
\* extraction and answers with the redirect.
C21_RequestCompletes ==
    \A h \in Handlers :
        (inflight[h].pc # "idle") ~> (inflight[h].pc = "idle" /\ last.status = 302)

C21_Witness ==
    /\ last.op = "edit"
    /\ last.reply = TimedOut
    /\ last.remoteCalls = 1
    /\ last.extractErr
    /\ last.wrote
    /\ last.status = 302
    /\ \A h \in Handlers : inflight[h].pc = "idle"

-----------------------------------------------------------------------------
(* Properties of concurrent requests (specification SpecRace).             *)

\* No handler is serving a request.
AllIdle == \A h \in DOMAIN inflight : inflight[h].pc = "idle"

\* C26: concurrent edits of a note behave as if served one after the
\* other: once the requests are answered, the keywords of every note are
\* those computed by one request, the request whose content the note has.
C26_EditsAsIfSerial ==
    AllIdle
    => \A n \in DOMAIN notes :
          \E in \in RaceCreates \cup RaceEditInputs :
             /\ notes[n].content = in.content
             /\ KeywordsOf(n) = Entries(in.kwInput)

\* C27: when concurrent requests assign a keyword name that is new, under
\* every interleaving of their statements the store holds one keyword row
\* of that name, and once the requests are answered each note is linked to
\* it (stated for notes that no edit has touched since they were created).
C27_OneRowBothLinked ==
    /\ \A k1, k2 \in keywords : k1.name = k2.name => k1 = k2
    /\ AllIdle
          => \A n \in DOMAIN notes :
                notes[n].content = RaceContents.created => KeywordsOf(n) = {"jobb"}

C27_Witness ==
    /\ inflight["h1"].pc = "linkrow"
    /\ inflight["h2"].pc = "linkrow"
    /\ inflight["h1"].req.op = "create"
    /\ inflight["h2"].req.op = "create"
    /\ inflight["h1"].req.id # inflight["h2"].req.id
    /\ Head(inflight["h1"].names) = "jobb"
    /\ Head(inflight["h2"].names) = "jobb"
    /\ inflight["h1"].kid = inflight["h2"].kid
    /\ note_keywords = << >>
    /\ Cardinality(keywords) = 1

\* C28: every create POST with content stores its note under an id that no
\* stored note has and is answered with the redirect, also when another
\* create is being served and both read the same time.
C28_CreateAlwaysStores ==
    (last.op = "create" /\ last.method = "POST" /\ last.content # <<>>)
    => /\ last.wrote
       /\ last.status = 302
       /\ last.id \in DOMAIN notes

====
